---- MODULE Spec2Model ----
(***************************************************************************)
(* Valvelet, the runway calculator (src/valvelet.py): the income model,    *)
(* the scenario cost model, the projection engine (simulate) and the       *)
(* scenario comparator (Valvelet._run_all_scenarios).                      *)
(*                                                                         *)
(* Representation.                                                         *)
(*  - A date is its day ordinal (an integer); start + timedelta(days=i) is *)
(*    start + i.  Python's None is the integer None below, which is no     *)
(*    day ordinal (ordinals start at 1).                                   *)
(*  - Money is exact: every money value is an integer count of 1/Unit of   *)
(*    the currency, Unit = DAYS_PER_MONTH * DAYS_PER_WEEK, and the inputs  *)
(*    are whole currency amounts (multiples of Unit), so that the code's   *)
(*    divisions by 30.0 and by 7.0 are exact integer divisions here.  The  *)
(*    rounding of IEEE doubles is not modelled.                            *)
(*  - total_income / sim_days is kept as the fraction [num, den].          *)
(*  - days_per_week ranges over whole numbers.                             *)
(*  - MAX_DAYS_DEFAULT and CHART_FALLBACK_DAYS are scaled down from 36500  *)
(*    and 3650 (the fallback stays below the default cap, as in the        *)
(*    source); the loop runs one iteration per day and cannot be explored  *)
(*    at the real horizon.                                                 *)
(***************************************************************************)
EXTENDS Integers, Sequences, FiniteSets, TLC

\* ------------------------------------------------------------------------
\* Module constants of the source
\* ------------------------------------------------------------------------
\* 36500 in the source, scaled down
MAX_DAYS_DEFAULT == 5

\* 3650 in the source, scaled down (below MAX_DAYS_DEFAULT, as there)
CHART_FALLBACK_DAYS == 3

DAYS_PER_MONTH == 30

DAYS_PER_WEEK == 7

\* date.max.toordinal()
DATE_MAX == 3652059

\* Python's None (an absent end, an absent death_day)
None == 0 - 1

\* One currency unit, in the model's money units.
Unit == DAYS_PER_MONTH * DAYS_PER_WEEK

\* ------------------------------------------------------------------------
\* Bounds of the explored inputs
\* ------------------------------------------------------------------------
\* simulate is called with max_days in 0..MaxDays
MaxDays == 3

\* the starting balance is in -1..MaxBalance currency units
MaxBalance == 2

\* an income list holds at most MaxIncomes entries
MaxIncomes == 2

\* a scenario list holds at most MaxScenarios scenarios
MaxScenarios == 3

Min(a, b) == IF a <= b THEN a ELSE b

Max(a, b) == IF a >= b THEN a ELSE b

\* ------------------------------------------------------------------------
\* Data classes
\* ------------------------------------------------------------------------
IncomeEntry(source, amount, frequency, start, end) ==
    [source |-> source, amount |-> amount, frequency |-> frequency,
     start |-> start, end |-> end]

Activity(name, cost, days_per_week) ==
    [name |-> name, cost |-> cost, days_per_week |-> days_per_week]

Scenario(name, activities) == [name |-> name, activities |-> activities]

SimResult(name, dates, balances, death_day, daily_burn, monthly_burn, daily_income_avg) ==
    [name |-> name, dates |-> dates, balances |-> balances,
     death_day |-> death_day, daily_burn |-> daily_burn,
     monthly_burn |-> monthly_burn, daily_income_avg |-> daily_income_avg]

\* s[:n] of a Python list
SliceTo(s, n) ==
    IF n >= 0 THEN SubSeq(s, 1, Min(n, Len(s)))
    ELSE SubSeq(s, 1, Max(0, Len(s) + n))

\* truncated with the balances left at their full length
truncated_DatesOnly(self, length) ==
    SimResult(self.name,
              SliceTo(self.dates, length),
              self.balances,
              self.death_day,
              self.daily_burn,
              self.monthly_burn,
              self.daily_income_avg)

\* SimResult.truncated
truncated(self, length) ==
    SimResult(self.name,
              SliceTo(self.dates, length),
              SliceTo(self.balances, length),
              self.death_day,
              self.daily_burn,
              self.monthly_burn,
              self.daily_income_avg)

\* ------------------------------------------------------------------------
\* Simulation
\* ------------------------------------------------------------------------
\* daily_income's loop body with a one-off entry paid on every day of its range
IncomeStep_OnceEveryDay(inc, d) ==
    IF d < inc.start THEN 0
    ELSE IF inc.end # None /\ d > inc.end THEN 0
    ELSE IF inc.frequency = "daily" THEN inc.amount
    ELSE IF inc.frequency = "monthly" THEN inc.amount \div DAYS_PER_MONTH
    ELSE IF inc.frequency = "weekly" THEN inc.amount \div DAYS_PER_WEEK
    ELSE IF inc.frequency = "once" THEN inc.amount
    ELSE 0

\* One pass of the body of daily_income's loop: the amount entry inc adds
\* to total for the date d.
IncomeStep(inc, d) ==
    IF d < inc.start THEN 0
    ELSE IF inc.end # None /\ d > inc.end THEN 0
    ELSE IF inc.frequency = "daily" THEN inc.amount
    ELSE IF inc.frequency = "monthly" THEN inc.amount \div DAYS_PER_MONTH
    ELSE IF inc.frequency = "weekly" THEN inc.amount \div DAYS_PER_WEEK
    ELSE IF inc.frequency = "once" THEN (IF d = inc.start THEN inc.amount ELSE 0)
    ELSE 0

RECURSIVE IncomeLoop(_, _, _, _)
IncomeLoop(incomes, d, k, total) ==
    IF k > Len(incomes) THEN total
    ELSE IncomeLoop(incomes, d, k + 1, total + IncomeStep(incomes[k], d))

daily_income(incomes, d) == IncomeLoop(incomes, d, 1, 0)

RECURSIVE CostLoop(_, _, _)
CostLoop(activities, k, total) ==
    IF k > Len(activities) THEN total
    ELSE CostLoop(activities, k + 1,
                  total + (activities[k].cost * activities[k].days_per_week)
                          \div DAYS_PER_WEEK)

daily_scenario_cost(scenario) == CostLoop(scenario.activities, 1, 0)

\* The locals of simulate before its loop.  i is the next value of the loop
\* index, broke records that the loop was left by break.
SimLocals(balance, fixed_monthly, scenario) ==
    [daily_fixed |-> fixed_monthly \div DAYS_PER_MONTH,
     daily_var |-> daily_scenario_cost(scenario),
     cash |-> balance,
     dates |-> <<>>,
     balances |-> <<>>,
     death_day |-> None,
     total_income |-> 0,
     inc |-> 0,
     i |-> 0,
     broke |-> FALSE]

\* the flows with the scenario's cost added instead of subtracted
Flows_CostAdded(cash, inc, daily_fixed, daily_var) ==
    LET c == cash + inc - daily_fixed + daily_var
    IN  IF c < 0 THEN 0 ELSE c

\* cash after the flows of one day, clamped at zero
Flows(cash, inc, daily_fixed, daily_var) ==
    LET c == cash + inc - daily_fixed - daily_var
    IN  IF c < 0 THEN 0 ELSE c

\* the death test with a threshold of one currency unit instead of zero
IsDeath_BelowOneUnit(cash, death_day) == cash <= Unit /\ death_day = None

\* The test that ends the projection on the day d
IsDeath(cash, death_day) == cash <= 0 /\ death_day = None

\* the loop body with the date taken one day late
LoopBody_DateOffByOne(L, start, incomes) ==
    LET d == start + L.i + 1
        L1 == [L EXCEPT !.dates = Append(L.dates, d),
                        !.balances = Append(L.balances, L.cash),
                        !.i = L.i + 1]
    IN  IF L.cash <= 0 /\ L.death_day = None
        THEN [L1 EXCEPT !.death_day = d, !.broke = TRUE]
        ELSE LET inc == daily_income(incomes, d)
             IN  [L1 EXCEPT !.inc = inc,
                            !.total_income = L.total_income + inc,
                            !.cash = Max(0, L.cash + inc - L.daily_fixed - L.daily_var)]

\* One iteration of simulate's loop, for the index L.i
LoopBody(L, start, incomes) ==
    LET d == start + L.i
        L1 == [L EXCEPT !.dates = Append(L.dates, d),
                        !.balances = Append(L.balances, L.cash),
                        !.i = L.i + 1]
    IN  IF IsDeath(L.cash, L.death_day)
        THEN [L1 EXCEPT !.death_day = d, !.broke = TRUE]
        ELSE LET inc == daily_income(incomes, d)
             IN  [L1 EXCEPT !.inc = inc,
                            !.total_income = L.total_income + inc,
                            !.cash = Flows(L.cash, inc, L.daily_fixed, L.daily_var)]

\* the loop without its break
LoopRuns_NoBreak(L, max_days) == L.i < max_days

\* for i in range(max_days): whether another iteration follows
LoopRuns(L, max_days) == L.i < max_days /\ ~L.broke

RECURSIVE Loop(_, _, _, _)
Loop(L, start, incomes, max_days) ==
    IF LoopRuns(L, max_days)
    THEN Loop(LoopBody(L, start, incomes), start, incomes, max_days)
    ELSE L

\* the average taken over the days whose flows were applied
IncomeAvg_FlowDays(total_income, sim_days) ==
    IF sim_days > 1 THEN [num |-> total_income, den |-> sim_days - 1]
    ELSE [num |-> 0, den |-> 1]

\* total_income / sim_days if sim_days > 0 else 0.0
IncomeAvg(total_income, sim_days) ==
    IF sim_days > 0 THEN [num |-> total_income, den |-> sim_days]
    ELSE [num |-> 0, den |-> 1]

\* The return statement of simulate
SimReturn(L, scenario) ==
    LET sim_days == Len(L.dates)
    IN  SimResult(scenario.name,
                  L.dates,
                  L.balances,
                  L.death_day,
                  L.daily_fixed + L.daily_var,
                  (L.daily_fixed + L.daily_var) * DAYS_PER_MONTH,
                  IncomeAvg(L.total_income, sim_days))

simulate(balance, start, incomes, fixed_monthly, scenario, max_days) ==
    SimReturn(Loop(SimLocals(balance, fixed_monthly, scenario),
                   start, incomes, max_days),
              scenario)

\* ------------------------------------------------------------------------
\* Comparator
\* ------------------------------------------------------------------------
\* the sort key with the survivors first
SortKey_NoneFirst(r) == IF r.death_day = None THEN 0 ELSE r.death_day

\* key=lambda r: r.death_day or date.max (a date is always truthy)
SortKey(r) == IF r.death_day = None THEN DATE_MAX ELSE r.death_day

\* list.sort is stable: r goes behind every element whose key is not larger
RECURSIVE InsertSorted(_, _)
InsertSorted(s, r) ==
    IF s = <<>> THEN <<r>>
    ELSE IF SortKey(s[Len(s)]) <= SortKey(r) THEN Append(s, r)
    ELSE Append(InsertSorted(SubSeq(s, 1, Len(s) - 1), r), s[Len(s)])

RECURSIVE SortFrom(_, _, _)
SortFrom(s, k, acc) ==
    IF k > Len(s) THEN acc ELSE SortFrom(s, k + 1, InsertSorted(acc, s[k]))

sort(s) == SortFrom(s, 1, <<>>)

\* results = [simulate(balance, start, incomes, fixed, scn) for scn in scenarios]
SimulateAll(balance, start, incomes, fixed, scenarios) ==
    [k \in 1..Len(scenarios) |->
        simulate(balance, start, incomes, fixed, scenarios[k], MAX_DAYS_DEFAULT)]

\* death_lens = [len(r.balances) for r in results if r.death_day]
DeathLens(results) ==
    {Len(results[k].balances) : k \in {j \in 1..Len(results) : results[j].death_day # None}}

SetMax(S) == CHOOSE m \in S : \A x \in S : x <= m

\* chart_len taken as the shortest depleting series
ChartLen_Min(results) ==
    IF DeathLens(results) # {}
    THEN CHOOSE m \in DeathLens(results) : \A x \in DeathLens(results) : m <= x
    ELSE CHART_FALLBACK_DAYS

\* chart_len = max(death_lens) if death_lens else CHART_FALLBACK_DAYS
ChartLen(results) ==
    IF DeathLens(results) # {} THEN SetMax(DeathLens(results))
    ELSE CHART_FALLBACK_DAYS

\* results = [r.truncated(chart_len) for r in results]
TruncateAll(results, chart_len) ==
    [k \in 1..Len(results) |-> truncated(results[k], chart_len)]

\* ------------------------------------------------------------------------
\* Inputs: what the loaders hand to the core
\* ------------------------------------------------------------------------
\* balance.xml: the current amount (it may be overdrawn) and its as-of date
Balances == {b * Unit : b \in (0 - 1)..MaxBalance}

Starts == {10, 11}

\* fixed_costs.xml: the total of the monthly fixed costs (0, 1 or 1.5 a day)
FixedMonthlies == {0, 30 * Unit, 45 * Unit}

\* income.xml: every frequency, one the code does not know, open and closed
\* ranges around the start dates
IncomePool ==
    << IncomeEntry("salary", 30 * Unit, "monthly", 9, None),
       IncomeEntry("gig", 3 * Unit, "weekly", 11, 12),
       IncomeEntry("allowance", 1 * Unit, "daily", 10, 11),
       IncomeEntry("gift", 2 * Unit, "once", 11, None),
       IncomeEntry("bonus", 5 * Unit, "yearly", 10, None) >>

\* scenarios.xml: A costs nothing, B and C one unit a day each, D two
ScenarioPool ==
    { Scenario("A", <<>>),
      Scenario("B", <<Activity("cafe", 1 * Unit, 7)>>),
      Scenario("C", <<Activity("gym", 2 * Unit, 3), Activity("bus", 1 * Unit, 1)>>),
      Scenario("D", <<Activity("taxi", 7 * Unit, 2)>>) }

\* the entries of pool at the indices in S, in the order of pool
RECURSIVE PickFrom(_, _, _)
PickFrom(pool, S, k) ==
    IF k > Len(pool) THEN <<>>
    ELSE IF k \in S THEN <<pool[k]>> \o PickFrom(pool, S, k + 1)
    ELSE PickFrom(pool, S, k + 1)

IncomeLists ==
    {PickFrom(IncomePool, S, 1) :
        S \in {T \in SUBSET (1..Len(IncomePool)) : Cardinality(T) <= MaxIncomes}}

\* lists of scenarios with different names, in every order
ScenarioLists ==
    UNION {{s \in [1..n -> ScenarioPool] :
                \A a, b \in 1..n : a # b => s[a].name # s[b].name} :
           n \in 0..Min(MaxScenarios, Cardinality(ScenarioPool))}

\* ------------------------------------------------------------------------
\* State
\* ------------------------------------------------------------------------
VARIABLES
    pc,            \* "idle", "running" (in simulate's loop), "returned", "compared"
    balance, start, incomes, fixed_monthly,   \* the arguments of the call
    scenarios,     \* the scenarios of the call (simulate has one)
    max_days,      \* simulate's max_days
    L,             \* simulate's locals
    result,        \* what simulate returned
    results,       \* _run_all_scenarios: the list of line 281
    chart_len,     \* _run_all_scenarios: chart_len
    returned       \* what _run_all_scenarios returned

vars == <<pc, balance, start, incomes, fixed_monthly, scenarios, max_days, L,
          result, results, chart_len, returned>>

NoScenario == Scenario("", <<>>)

NoResult == SimResult("", <<>>, <<>>, None, 0, 0, IncomeAvg(0, 0))

Init ==
    /\ pc = "idle"
    /\ balance = 0
    /\ start = 0
    /\ incomes = <<>>
    /\ fixed_monthly = 0
    /\ scenarios = <<>>
    /\ max_days = 0
    /\ L = SimLocals(0, 0, NoScenario)
    /\ result = NoResult
    /\ results = <<>>
    /\ chart_len = 0
    /\ returned = <<>>

\* simulate(balance, start, incomes, fixed_monthly, scenario, max_days) is
\* called: the statements before the loop
SimulateCall ==
    /\ pc = "idle"
    /\ \E b \in Balances, s \in Starts, inc \in IncomeLists,
          f \in FixedMonthlies, scn \in ScenarioPool, m \in 0..MaxDays :
            /\ balance' = b
            /\ start' = s
            /\ incomes' = inc
            /\ fixed_monthly' = f
            /\ scenarios' = <<scn>>
            /\ max_days' = m
            /\ L' = SimLocals(b, f, scn)
    /\ pc' = "running"
    /\ UNCHANGED <<result, results, chart_len, returned>>

\* one iteration of the loop
SimulateStep ==
    /\ pc = "running"
    /\ LoopRuns(L, max_days)
    /\ L' = LoopBody(L, start, incomes)
    /\ UNCHANGED <<pc, balance, start, incomes, fixed_monthly, scenarios,
                   max_days, result, results, chart_len, returned>>

\* the loop is over: simulate returns
SimulateReturn ==
    /\ pc = "running"
    /\ ~LoopRuns(L, max_days)
    /\ result' = SimReturn(L, scenarios[1])
    /\ pc' = "returned"
    /\ UNCHANGED <<balance, start, incomes, fixed_monthly, scenarios, max_days,
                   L, results, chart_len, returned>>

\* Valvelet._run_all_scenarios(balance, start, incomes, fixed, scenarios)
RunAllScenarios ==
    /\ pc = "idle"
    /\ \E b \in Balances, s \in Starts, inc \in IncomeLists,
          f \in FixedMonthlies, scns \in ScenarioLists :
            LET sims == SimulateAll(b, s, inc, f, scns)
                len == ChartLen(sims)
            IN  /\ balance' = b
                /\ start' = s
                /\ incomes' = inc
                /\ fixed_monthly' = f
                /\ scenarios' = scns
                /\ results' = sims
                /\ chart_len' = len
                /\ returned' = sort(TruncateAll(sims, len))
    /\ pc' = "compared"
    /\ UNCHANGED <<max_days, L, result>>

Next == SimulateCall \/ SimulateStep \/ SimulateReturn \/ RunAllScenarios

Spec == Init /\ [][Next]_vars

\* simulate's loop is a plain sequential loop: a started call runs to its return
FairSpec == Spec /\ WF_vars(SimulateStep) /\ WF_vars(SimulateReturn)

\* ------------------------------------------------------------------------
\* Properties
\* ------------------------------------------------------------------------
Last(s) == s[Len(s)]

Returned == pc = "returned"

Compared == pc = "compared"

\* the index of the scenario called name in the list of the call
ScenarioIndex(name) == CHOOSE k \in 1..Len(scenarios) : scenarios[k].name = name

\* C1: when simulate returns a death_day, it is the last recorded date, the
\* balance recorded for it is <= 0, every balance recorded before it is > 0,
\* and the flows of that day were not applied (cash is still that balance).
C1_Holds(r) ==
    r.death_day # None =>
        /\ Len(r.dates) >= 1
        /\ Len(r.balances) = Len(r.dates)
        /\ r.death_day = Last(r.dates)
        /\ Last(r.balances) <= 0
        /\ \A j \in 1..(Len(r.balances) - 1) : r.balances[j] > 0

C1_DeathDayIsFirstDepleted ==
    /\ Returned => C1_Holds(result) /\ (result.death_day # None => L.cash = Last(result.balances))
    /\ Compared => \A k \in 1..Len(results) : C1_Holds(results[k])

\* a run that died on its third day or later, on a day with income due
C1_Witness ==
    /\ Returned
    /\ result.death_day # None
    /\ Len(result.dates) >= 3
    /\ daily_income(incomes, result.death_day) > 0

\* C2: every balance simulate records is >= 0.
C2_BalancesNonNegative ==
    Returned => \A j \in 1..Len(result.balances) : result.balances[j] >= 0

\* C3 as stated: dates and balances have the same length, are non-empty, and
\* the dates are the consecutive days from start.
C3_SeriesNonEmptyConsecutive ==
    Returned =>
        /\ Len(result.dates) = Len(result.balances)
        /\ Len(result.dates) >= 1
        /\ result.dates[1] = start
        /\ \A j \in 1..(Len(result.dates) - 1) : result.dates[j + 1] = result.dates[j] + 1

\* C3 amended: dates and balances have the same length and the dates are the
\* consecutive days from start; the series is non-empty exactly when
\* max_days >= 1.
C3_SeriesConsecutive ==
    Returned =>
        /\ Len(result.dates) = Len(result.balances)
        /\ (Len(result.dates) >= 1) <=> (max_days >= 1)
        /\ \A j \in 1..Len(result.dates) : result.dates[j] = start + (j - 1)

C3_Witness ==
    /\ Returned
    /\ max_days >= 3
    /\ Len(result.dates) >= 3
    /\ result.dates[3] = start + 2

\* C4: the loop makes at most max_days iterations, one recorded day each; once
\* it has detected the death day it records no later day; the run ends DEAD
\* (death_day set, it is the last day) or SURVIVED (death_day none, only after
\* all max_days iterations, so the series has max_days entries); and every
\* started run reaches its return.
C4_Safety ==
    /\ pc \in {"running", "returned"} =>
        /\ L.i <= max_days
        /\ Len(L.dates) = L.i
        /\ L.broke <=> (L.death_day # None)
        /\ L.broke => L.death_day = Last(L.dates)
    /\ Returned =>
        \/ /\ result.death_day # None
           /\ result.death_day = Last(result.dates)
           /\ Len(result.dates) <= max_days
        \/ /\ result.death_day = None
           /\ L.i = max_days
           /\ Len(result.dates) = max_days

C4_Terminates ==
    /\ []C4_Safety
    /\ (pc = "running") ~> Returned
    /\ [][Returned => Returned']_vars

\* a run that survived a cap of three days or more
C4_Witness ==
    /\ Returned
    /\ max_days >= 3
    /\ result.death_day = None
    /\ Len(result.dates) = max_days

\* C5: the comparator returns one result per scenario, ordered by death_day
\* ascending with the results without a death_day behind all others; results
\* with the same death_day (or with none) keep the order of the scenarios.
C5_SortedStable ==
    Compared =>
        /\ Len(returned) = Len(scenarios)
        /\ {returned[k].name : k \in 1..Len(returned)}
               = {scenarios[k].name : k \in 1..Len(scenarios)}
        /\ \A a, b \in 1..Len(returned) :
              a < b =>
                /\ returned[a].death_day = None => returned[b].death_day = None
                /\ returned[b].death_day # None =>
                       returned[a].death_day <= returned[b].death_day
                /\ returned[a].death_day = returned[b].death_day =>
                       ScenarioIndex(returned[a].name) < ScenarioIndex(returned[b].name)

\* the survivor came first in the input and is sorted behind two scenarios
\* that die on the same day
C5_Witness ==
    /\ Compared
    /\ Len(returned) = 3
    /\ returned[1].death_day # None
    /\ returned[1].death_day = returned[2].death_day
    /\ returned[3].death_day = None
    /\ scenarios[1].name = returned[3].name

\* the scenario's simulate result, before truncation
SimOf(r) == results[ScenarioIndex(r.name)]

\* C6: chart_len is the largest series length among the results with a
\* death_day, or CHART_FALLBACK_DAYS when there is none; every returned result
\* is its scenario's simulate result with dates and balances cut to their
\* first chart_len elements and the scalar fields unchanged.
C6_ChartLenAndPrefix ==
    Compared =>
        LET dead == {k \in 1..Len(results) : results[k].death_day # None}
        IN  /\ dead = {} => chart_len = CHART_FALLBACK_DAYS
            /\ dead # {} =>
                  /\ \E k \in dead : chart_len = Len(results[k].balances)
                  /\ \A k \in dead : Len(results[k].balances) <= chart_len
            /\ \A k \in 1..Len(scenarios) :
                  results[k] = simulate(balance, start, incomes, fixed_monthly,
                                        scenarios[k], MAX_DAYS_DEFAULT)
            /\ \A k \in 1..Len(returned) :
                  LET r == returned[k]
                      sim == SimOf(r)
                  IN  /\ Len(r.dates) = Min(chart_len, Len(sim.dates))
                      /\ Len(r.balances) = Min(chart_len, Len(sim.balances))
                      /\ \A j \in 1..Len(r.dates) : r.dates[j] = sim.dates[j]
                      /\ \A j \in 1..Len(r.balances) : r.balances[j] = sim.balances[j]
                      /\ r.name = sim.name
                      /\ r.death_day = sim.death_day
                      /\ r.daily_burn = sim.daily_burn
                      /\ r.monthly_burn = sim.monthly_burn
                      /\ r.daily_income_avg = sim.daily_income_avg

\* no scenario depletes: the fallback length cuts the survivors' series
C6_Witness ==
    /\ Compared
    /\ Len(returned) >= 2
    /\ \A k \in 1..Len(returned) : returned[k].death_day = None
    /\ chart_len = CHART_FALLBACK_DAYS
    /\ \A k \in 1..Len(returned) :
          /\ Len(returned[k].dates) = CHART_FALLBACK_DAYS
          /\ Len(SimOf(returned[k]).dates) > CHART_FALLBACK_DAYS

\* the sum of daily_income over the first n of dates
RECURSIVE IncomeOver(_, _)
IncomeOver(dates, n) ==
    IF n <= 0 THEN 0
    ELSE IncomeOver(dates, n - 1) + daily_income(incomes, dates[n])

\* what the entry e pays on the day d, as C7 states it
C7_Pays(e, d, x) ==
    IF d < e.start \/ (e.end # None /\ d > e.end) THEN x = 0
    ELSE CASE e.frequency = "daily" -> x = e.amount
           [] e.frequency = "weekly" -> x * 7 = e.amount
           [] e.frequency = "monthly" -> x * 30 = e.amount
           [] e.frequency = "once" -> x = (IF d = e.start THEN e.amount ELSE 0)
           [] OTHER -> x = 0

RECURSIVE C7_Sum(_, _)
C7_Sum(es, d) ==
    IF es = <<>> THEN 0
    ELSE LET e == Head(es)
             shares == {0, e.amount, e.amount \div 7, e.amount \div 30}
         IN  (CHOOSE x \in shares : C7_Pays(e, d, x)) + C7_Sum(Tail(es), d)

\* C7: daily_income is the sum over the entries of what each pays on the day:
\* nothing outside [start, end], amount for daily, amount/7 for weekly,
\* amount/30 for monthly, amount on the start day alone for once, nothing for
\* any other frequency.  The income simulate applied on a day is that sum.
C7_DailyIncome ==
    pc # "idle" =>
        /\ \A d \in (start - 2)..(start + MAX_DAYS_DEFAULT + 1) :
              daily_income(incomes, d) = C7_Sum(incomes, d)
        /\ (pc = "running" /\ L.i >= 1 /\ ~L.broke) =>
              L.inc = C7_Sum(incomes, Last(L.dates))

\* the loop has applied a one-off income on its start day, and nothing of it
\* on the day after
C7_Witness ==
    /\ pc = "running"
    /\ L.i = 3
    /\ ~L.broke
    /\ \E k \in 1..Len(incomes) :
          /\ incomes[k].frequency = "once"
          /\ incomes[k].start = L.dates[2]
          /\ L.total_income = incomes[k].amount
    /\ L.inc = 0

\* C8: daily_income_avg is the income accumulated over the days whose flows
\* were applied (every recorded day but the death day), divided by the number
\* of recorded days; it is 0 when no day was recorded.
C8_IncomeAvg ==
    Returned =>
        LET n == Len(result.dates)
            applied == IF result.death_day # None THEN n - 1 ELSE n
            avg == result.daily_income_avg
        IN  /\ avg.den > 0
            /\ n = 0 => avg.num = 0
            /\ n > 0 => avg.num * n = IncomeOver(result.dates, applied) * avg.den

\* a run that applied income and died on a day with income due
C8_Witness ==
    /\ Returned
    /\ result.death_day # None
    /\ Len(result.dates) >= 2
    /\ result.daily_income_avg.num > 0
    /\ daily_income(incomes, result.death_day) > 0

\* C9: in the comparator's output no depleting scenario's series is
\* shortened (its dates and balances are those of simulate, its death_day is
\* still its last date), only a result without death_day can lose elements,
\* and no series is longer than chart_len.
C9_DepletingNotShortened ==
    Compared =>
        \A k \in 1..Len(returned) :
            LET r == returned[k]
                sim == SimOf(r)
            IN  /\ r.death_day # None =>
                      /\ r.dates = sim.dates
                      /\ r.balances = sim.balances
                      /\ r.death_day = Last(r.dates)
                /\ (Len(r.dates) < Len(sim.dates) \/ Len(r.balances) < Len(sim.balances))
                      => r.death_day = None
                /\ Len(r.dates) <= chart_len
                /\ Len(r.balances) <= chart_len

\* two scenarios deplete on different days and a survivor is cut
C9_Witness ==
    /\ Compared
    /\ Len(returned) = 3
    /\ returned[1].death_day # None
    /\ returned[2].death_day # None
    /\ returned[1].death_day < returned[2].death_day
    /\ Len(returned[1].dates) < chart_len
    /\ returned[3].death_day = None
    /\ Len(returned[3].dates) < Len(SimOf(returned[3]).dates)

\* C10: of two runs on the same balance, start, incomes, fixed costs and cap,
\* the one whose scenario costs at least as much has a balance that is not
\* larger on every day both record, and depletes no later than the other.
C10_Monotone ==
    Compared =>
        \A a, b \in 1..Len(results) :
            daily_scenario_cost(scenarios[a]) >= daily_scenario_cost(scenarios[b]) =>
                /\ \A j \in 1..Min(Len(results[a].balances), Len(results[b].balances)) :
                      results[a].balances[j] <= results[b].balances[j]
                /\ results[b].death_day # None =>
                      /\ results[a].death_day # None
                      /\ results[a].death_day <= results[b].death_day

\* the dearer scenario depletes strictly earlier than a cheaper one that
\* depletes too
C10_Witness ==
    /\ Compared
    /\ \E a, b \in 1..Len(results) :
          /\ daily_scenario_cost(scenarios[a]) > daily_scenario_cost(scenarios[b])
          /\ results[b].death_day # None
          /\ results[a].death_day # None
          /\ results[a].death_day < results[b].death_day
          /\ Len(results[a].balances) >= 3

====
